---- MODULE Spec2Model ----
(***************************************************************************)
(* Kronecker-product linear algebra of kronecker.py: determinant,          *)
(* log_determinant, inv, cholesky and the validator _is_kron, acting on a  *)
(* TensorTrain value whose cores live in a heap of tensor objects.         *)
(*                                                                         *)
(* Matrix entries are exact rationals <<p, q>> (q > 0, lowest terms); a    *)
(* dense matrix is a sequence of rows of rationals.  The logarithm is the  *)
(* exact homomorphism from the positive numbers to prime-exponent vectors  *)
(* (log(2^a * 5^b) = a*log 2 + b*log 5), with -inf and nan for the         *)
(* non-positive arguments, as the floating-point primitive yields them.    *)
(***************************************************************************)
EXTENDS Integers, Sequences, FiniteSets, TLC

\* ------------------------------------------------------------------------
\* Bounds of the model
\* ------------------------------------------------------------------------
MaxK == 2        \* largest number of factors of an argument
MaxRank == 2     \* largest interior linking rank of an argument
MaxDepth == 2    \* longest chain op(op(...(value))) of calls on results

\* ------------------------------------------------------------------------
\* Exact rational arithmetic (the scalars of the dense backend)
\* ------------------------------------------------------------------------
Abs(x) == IF x < 0 THEN -x ELSE x

RECURSIVE GCD(_, _)
GCD(a, b) == IF b = 0 THEN a ELSE GCD(b, a % b)

RNorm(p, q) ==
  LET s == IF q < 0 THEN -1 ELSE 1
      g == GCD(Abs(p), Abs(q))
  IN  <<(s * p) \div g, (s * q) \div g>>

RInt(n) == <<n, 1>>
RZero == RInt(0)
ROne == RInt(1)
RAdd(a, b) == RNorm(a[1] * b[2] + b[1] * a[2], a[2] * b[2])
RNeg(a) == <<-a[1], a[2]>>
RSub(a, b) == RAdd(a, RNeg(b))
RMul(a, b) == RNorm(a[1] * b[1], a[2] * b[2])
RDiv(a, b) == RNorm(a[1] * b[2], a[2] * b[1])
RPos(a) == a[1] > 0

RECURSIVE ISqrtFrom(_, _)
ISqrtFrom(n, r) == IF (r + 1) * (r + 1) > n THEN r ELSE ISqrtFrom(n, r + 1)
ISqrt(n) == ISqrtFrom(n, 0)
IsSquare(a) == /\ a[1] >= 0
               /\ ISqrt(a[1]) * ISqrt(a[1]) = a[1]
               /\ ISqrt(a[2]) * ISqrt(a[2]) = a[2]
RSqrt(a) == <<ISqrt(a[1]), ISqrt(a[2])>>

\* ------------------------------------------------------------------------
\* tf.log: exact on the positive rationals, -inf at 0, nan below 0
\* ------------------------------------------------------------------------
IsPrime(p) == p >= 2 /\ \A d \in 2..(p - 1) : p % d # 0

RECURSIVE Multiplicity(_, _)
Multiplicity(n, p) == IF n % p = 0 THEN 1 + Multiplicity(n \div p, p) ELSE 0

PrimesOf(n) == {p \in 2..n : IsPrime(p) /\ n % p = 0}

\* A scalar the functions accumulate (det, logdet terms) is kept exactly as a
\* sign and the prime-exponent vector of its magnitude.
VecAt(v, p) == IF p \in DOMAIN v THEN v[p] ELSE 0
VecTrim(D, f(_)) == [p \in {x \in D : f(x) # 0} |-> f(p)]

Scalar(a) ==
  IF a[1] = 0 THEN [sign |-> 0, vec |-> << >>]
  ELSE [sign |-> IF a[1] < 0 THEN -1 ELSE 1,
        vec |-> [p \in PrimesOf(Abs(a[1])) \cup PrimesOf(a[2]) |->
                   Multiplicity(Abs(a[1]), p) - Multiplicity(a[2], p)]]
ScOne == [sign |-> 1, vec |-> << >>]

\* x * y
ScMul(x, y) ==
  IF x.sign = 0 \/ y.sign = 0 THEN [sign |-> 0, vec |-> << >>]
  ELSE LET f(p) == VecAt(x.vec, p) + VecAt(y.vec, p)
       IN  [sign |-> x.sign * y.sign,
            vec |-> VecTrim(DOMAIN x.vec \cup DOMAIN y.vec, f)]

\* tf.pow(x, e) for a whole exponent e >= 0
ScPow(x, e) ==
  IF e = 0 THEN ScOne
  ELSE IF x.sign = 0 THEN x
  ELSE LET f(p) == x.vec[p] * e
       IN  [sign |-> IF e % 2 = 0 THEN 1 ELSE x.sign,
            vec |-> VecTrim(DOMAIN x.vec, f)]

LogFin(v) == [kind |-> "fin", vec |-> v]
LogNegInf == [kind |-> "ninf", vec |-> << >>]
LogNaN == [kind |-> "nan", vec |-> << >>]
LogZero == LogFin(<< >>)

\* tf.log(x)
Log(x) ==
  IF x.sign < 0 THEN LogNaN
  ELSE IF x.sign = 0 THEN LogNegInf
  ELSE LogFin(x.vec)


\* x * c for a whole factor c >= 1
LogScale(x, c) ==
  IF x.kind = "fin"
  THEN LET f(p) == x.vec[p] * c IN LogFin(VecTrim(DOMAIN x.vec, f))
  ELSE x

\* x + y
LogAdd(x, y) ==
  IF x.kind = "nan" \/ y.kind = "nan" THEN LogNaN
  ELSE IF x.kind = "ninf" \/ y.kind = "ninf" THEN LogNegInf
  ELSE LET f(p) == VecAt(x.vec, p) + VecAt(y.vec, p)
       IN  LogFin(VecTrim(DOMAIN x.vec \cup DOMAIN y.vec, f))

\* ------------------------------------------------------------------------
\* Dense matrices and the backend's primitives
\* ------------------------------------------------------------------------
Rows(M) == Len(M)
Cols(M) == IF Len(M) = 0 THEN 0 ELSE Len(M[1])

FromInts(M) == [i \in 1..Len(M) |-> [j \in 1..Len(M[i]) |-> RInt(M[i][j])]]

Minor(M, i, j) ==
  [r \in 1..(Rows(M) - 1) |->
     [c \in 1..(Cols(M) - 1) |->
        M[IF r < i THEN r ELSE r + 1][IF c < j THEN c ELSE c + 1]]]

Sign(n) == IF n % 2 = 0 THEN ROne ELSE RInt(-1)

\* tf.matrix_determinant: Laplace expansion along the first row
RECURSIVE MatDet(_)
RECURSIVE DetSum(_, _)
DetSum(M, j) ==
  IF j > Cols(M) THEN RZero
  ELSE RAdd(RMul(RMul(Sign(1 + j), M[1][j]), MatDet(Minor(M, 1, j))),
            DetSum(M, j + 1))
MatDet(M) == IF Rows(M) = 0 THEN ROne ELSE DetSum(M, 1)

Invertible(M) == MatDet(M) # RZero

\* tf.matrix_inverse: adjugate over determinant
MatInverse(M) ==
  [i \in 1..Rows(M) |->
     [j \in 1..Rows(M) |->
        RDiv(RMul(Sign(i + j), MatDet(Minor(M, j, i))), MatDet(M))]]

\* tf.cholesky: Cholesky-Banachiewicz on the lower triangle of A.
\* status "ok" (L is the factor), "notpd" (a pivot is not positive) or
\* "irrational" (a pivot has no rational square root).
RECURSIVE DotPrefix(_, _, _)
DotPrefix(u, v, k) ==
  IF k = 0 THEN RZero ELSE RAdd(RMul(u[k], v[k]), DotPrefix(u, v, k - 1))

RECURSIVE CholRow(_, _, _, _, _)
CholRow(A, L, i, j, row) ==
  IF j > i
  THEN [status |-> "ok",
        row |-> [c \in 1..Rows(A) |-> IF c <= i THEN row[c] ELSE RZero]]
  ELSE IF j = i
  THEN LET v == RSub(A[i][i], DotPrefix(row, row, i - 1))
       IN  IF ~RPos(v) THEN [status |-> "notpd", row |-> row]
           ELSE IF ~IsSquare(v) THEN [status |-> "irrational", row |-> row]
           ELSE CholRow(A, L, i, j + 1, Append(row, RSqrt(v)))
  ELSE LET v == RSub(A[i][j], DotPrefix(row, L[j], j - 1))
       IN  CholRow(A, L, i, j + 1, Append(row, RDiv(v, L[j][j])))

RECURSIVE CholRows(_, _, _)
CholRows(A, L, i) ==
  IF i > Rows(A) THEN [status |-> "ok", L |-> L]
  ELSE LET r == CholRow(A, L, i, 1, << >>)
       IN  IF r.status # "ok" THEN [status |-> r.status, L |-> L]
           ELSE CholRows(A, Append(L, r.row), i + 1)

MatCholesky(A) == CholRows(A, << >>, 1)

MatMul(A, B) ==
  [i \in 1..Rows(A) |-> [j \in 1..Cols(B) |->
     DotPrefix(A[i], [k \in 1..Rows(B) |-> B[k][j]], Rows(B))]]
Transpose(A) == [i \in 1..Cols(A) |-> [j \in 1..Rows(A) |-> A[j][i]]]
Identity(n) == [i \in 1..n |-> [j \in 1..n |-> IF i = j THEN ROne ELSE RZero]]
LowerSym(A) ==
  [i \in 1..Rows(A) |-> [j \in 1..Rows(A) |-> IF j <= i THEN A[i][j] ELSE A[j][i]]]
IsLower(A) == \A i \in 1..Rows(A) : \A j \in 1..Cols(A) : j > i => A[i][j] = RZero

\* ------------------------------------------------------------------------
\* Objects: dense tensors and TensorTrain values, held in a heap by identity
\* ------------------------------------------------------------------------
\* The family of factor cores an argument is built from (slice [0,:,:,0]).
A2 == FromInts(<< <<1, 1>>, <<-1, 1>> >>)                    \* side 2, det 2
B3 == FromInts(<< <<2, 1, 0>>, <<1, 3, 0>>, <<0, 0, 1>> >>)  \* side 3, det 5
S2 == FromInts(<< <<4, 2>>, <<2, 2>> >>)      \* symmetric positive-definite
Z2 == FromInts(<< <<1, 2>>, <<2, 4>> >>)      \* singular
N1 == FromInts(<< <<-3>> >>)                  \* negative determinant
X1 == FromInts(<< <<16>> >>)                  \* side 1, positive
R12 == FromInts(<< <<1, 2>> >>)               \* 1 x 2, not square
R21 == FromInts(<< <<1>>, <<2>> >>)           \* 2 x 1, not square
CoreMats == {A2, B3, S2, Z2, N1, X1, R12, R21}

Tensor(shape, mat) == [type |-> "Tensor", shape |-> shape, mat |-> mat]

\* core[0, :, :, 0]
Slice(core) == core.mat
\* both unit axes put in front: expand_dims(expand_dims(m, 0), 0)
ExpandDimsFront(m) == Tensor(<<1, 1, Rows(m), Cols(m)>>, m)

\* tf.expand_dims(tf.expand_dims(m, 0), -1)
ExpandDims(m) == Tensor(<<1, Rows(m), Cols(m), 1>>, m)

\* TensorTrain(tt_cores, shape, tt_ranks)
TensorTrain(tt_cores, shape, tt_ranks) ==
  [type |-> "TensorTrain", tt_cores |-> tt_cores,
   raw_shape |-> shape, tt_ranks |-> tt_ranks]
is_tt_matrix(tt) == Len(tt.raw_shape) = 2
get_tt_ranks(tt) == tt.tt_ranks
get_raw_shape(tt) == tt.raw_shape
ndims(tt) == Len(tt.tt_cores)

Range(s) == {s[i] : i \in DOMAIN s}
SeqMax(s) == CHOOSE m \in Range(s) : \A x \in Range(s) : x <= m
\* one entry short: [1] * ndims
OnesShort(n) == [i \in 1..(n - 1) |-> 1]

\* [1] * n
Ones(n) == [i \in 1..n |-> 1]

\* a new object gets the smallest identity not in use
FreshId(h) == CHOOSE id \in 1..(Cardinality(DOMAIN h) + 1) :
                 /\ id \notin DOMAIN h
                 /\ \A j \in 1..(id - 1) : j \in DOMAIN h
Alloc(h, obj) == [id \in DOMAIN h \cup {FreshId(h)} |->
                    IF id \in DOMAIN h THEN h[id] ELSE obj]

NoValue == [kind |-> "none", val |-> 0]

\* every exception caught and raised again as a ValueError
RaiseAsValueError(exc, h, applied, built) ==
  [outcome |-> "ValueError", value |-> NoValue, heap |-> h,
   applied |-> applied, built |-> built]

\* an exception leaves the function: no value, the heap as it is
Raise(exc, h, applied, built) ==
  [outcome |-> exc, value |-> NoValue, heap |-> h,
   applied |-> applied, built |-> built]
Return(kind, val, h, applied, built) ==
  [outcome |-> "returned", value |-> [kind |-> kind, val |-> val], heap |-> h,
   applied |-> applied, built |-> built]

\* ------------------------------------------------------------------------
\* kronecker.py
\* ------------------------------------------------------------------------
SeqMin(s) == CHOOSE m \in Range(s) : \A x \in Range(s) : m <= x

\* the ranks are not looked at
_is_kron_no_ranks(tt_a) == is_tt_matrix(tt_a)

\* min in place of max
_is_kron_min(tt_a) ==
  IF is_tt_matrix(tt_a) THEN SeqMin(get_tt_ranks(tt_a)) = 1 ELSE FALSE

_is_kron(tt_a) ==
  IF is_tt_matrix(tt_a) THEN SeqMax(get_tt_ranks(tt_a)) = 1 ELSE FALSE

\* first loop of determinant: every core square, pows = product of sides
RECURSIVE DetShapeLoop(_, _, _, _)
DetShapeLoop(h, kron_a, core_idx, pows) ==
  IF core_idx > ndims(kron_a) THEN [ok |-> TRUE, pows |-> pows]
  ELSE LET core == h[kron_a.tt_cores[core_idx]]
       IN  IF core.shape[2] # core.shape[3] THEN [ok |-> FALSE, pows |-> pows]
           ELSE DetShapeLoop(h, kron_a, core_idx + 1, pows * core.shape[2])

\* the exponent is taken to be pows itself, the division by the side forgotten
DetTermNoDiv(core, pows) == ScPow(Scalar(MatDet(Slice(core))), pows)

\* tf.pow(tf.matrix_determinant(core[0, :, :, 0]), pows / side)
DetTerm(core, pows) ==
  ScPow(Scalar(MatDet(Slice(core))), pows \div core.shape[2])

\* second loop of determinant
RECURSIVE DetLoop(_, _, _, _, _, _)
DetLoop(h, cores, core_idx, det, pows, applied) ==
  IF core_idx > Len(cores) THEN [det |-> det, applied |-> applied]
  ELSE LET core == h[cores[core_idx]]
       IN  DetLoop(h, cores, core_idx + 1,
                   ScMul(det, DetTerm(core, pows)),
                   pows, Append(applied, cores[core_idx]))

determinant(h, a) ==
  LET kron_a == h[a]
  IN  IF ~_is_kron(kron_a) THEN Raise("ValueError", h, << >>, 0)
      ELSE LET cores == kron_a.tt_cores
               chk == DetShapeLoop(h, kron_a, 1, 1)
           IN  IF ~chk.ok THEN Raise("ValueError", h, << >>, 0)
               ELSE LET r == DetLoop(h, cores, 1, ScOne, chk.pows, << >>)
                    IN  Return("scalar", r.det, h, r.applied, 0)

\* first loop of log_determinant
RECURSIVE LogShapeLoop(_, _, _, _)
LogShapeLoop(h, kron_a, core_idx, pows) ==
  IF core_idx > ndims(kron_a) THEN [ok |-> TRUE, pows |-> pows]
  ELSE LET core == h[kron_a.tt_cores[core_idx]]
       IN  IF core.shape[2] # core.shape[3] THEN [ok |-> FALSE, pows |-> pows]
           ELSE LogShapeLoop(h, kron_a, core_idx + 1, pows * core.shape[2])

\* the factor is taken to be the side, not pows / side
LogTermSide(core, pows) ==
  LogScale(Log(Scalar(MatDet(Slice(core)))), core.shape[2])

\* tf.log(tf.matrix_determinant(core[0, :, :, 0])) * (pows / side)
LogTerm(core, pows) ==
  LogScale(Log(Scalar(MatDet(Slice(core)))), pows \div core.shape[2])

\* second loop of log_determinant
RECURSIVE LogLoop(_, _, _, _, _, _)
LogLoop(h, kron_a, core_idx, logdet, pows, applied) ==
  IF core_idx > ndims(kron_a) THEN [logdet |-> logdet, applied |-> applied]
  ELSE LET core == h[kron_a.tt_cores[core_idx]]
       IN  LogLoop(h, kron_a, core_idx + 1,
                   LogAdd(logdet, LogTerm(core, pows)),
                   pows, Append(applied, kron_a.tt_cores[core_idx]))

log_determinant(h, a) ==
  LET kron_a == h[a]
  IN  IF ~_is_kron(kron_a) THEN Raise("ValueError", h, << >>, 0)
      ELSE LET chk == LogShapeLoop(h, kron_a, 1, 1)
           IN  IF ~chk.ok THEN Raise("ValueError", h, << >>, 0)
               ELSE LET r == LogLoop(h, kron_a, 1, LogZero, chk.pows, << >>)
                    IN  Return("log", r.logdet, h, r.applied, 0)

\* the inverse written over the argument's core instead of a new tensor
RECURSIVE InvLoopInPlace(_, _, _, _, _)
InvLoopInPlace(h, kron_a, core_idx, inv_cores, applied) ==
  IF core_idx > ndims(kron_a)
  THEN [outcome |-> "ok", heap |-> h, cores |-> inv_cores, applied |-> applied]
  ELSE LET core == h[kron_a.tt_cores[core_idx]]
       IN  IF core.shape[2] # core.shape[3]
           THEN [outcome |-> "ValueError", heap |-> h,
                 cores |-> inv_cores, applied |-> applied]
           ELSE LET touched == Append(applied, kron_a.tt_cores[core_idx])
                IN  IF ~Invertible(Slice(core))
                    THEN [outcome |-> "NumericFailure", heap |-> h,
                          cores |-> inv_cores, applied |-> touched]
                    ELSE LET core_inv == MatInverse(Slice(core))
                             h2 == [h EXCEPT ![kron_a.tt_cores[core_idx]] =
                                               ExpandDims(core_inv)]
                         IN  InvLoopInPlace(h2, kron_a, core_idx + 1,
                                 Append(inv_cores, kron_a.tt_cores[core_idx]),
                                 touched)

\* loop of inv: shape check and dense inverse, core by core
RECURSIVE InvLoop(_, _, _, _, _)
InvLoop(h, kron_a, core_idx, inv_cores, applied) ==
  IF core_idx > ndims(kron_a)
  THEN [outcome |-> "ok", heap |-> h, cores |-> inv_cores, applied |-> applied]
  ELSE LET core == h[kron_a.tt_cores[core_idx]]
       IN  IF core.shape[2] # core.shape[3]
           THEN [outcome |-> "ValueError", heap |-> h,
                 cores |-> inv_cores, applied |-> applied]
           ELSE LET touched == Append(applied, kron_a.tt_cores[core_idx])
                IN  IF ~Invertible(Slice(core))
                    THEN [outcome |-> "NumericFailure", heap |-> h,
                          cores |-> inv_cores, applied |-> touched]
                    ELSE LET core_inv == MatInverse(Slice(core))
                             h2 == Alloc(h, ExpandDims(core_inv))
                         IN  InvLoop(h2, kron_a, core_idx + 1,
                                     Append(inv_cores, FreshId(h)), touched)

inv(h, a) ==
  LET kron_a == h[a]
  IN  IF ~_is_kron(kron_a) THEN Raise("ValueError", h, << >>, 0)
      ELSE LET r == InvLoop(h, kron_a, 1, << >>, << >>)
           IN  IF r.outcome # "ok"
               THEN Raise(r.outcome, r.heap, r.applied, Len(r.cores))
               ELSE LET res_ranks == Ones(ndims(kron_a) + 1)
                        res_shape == get_raw_shape(kron_a)
                        res == TensorTrain(r.cores, res_shape, res_ranks)
                    IN  Return("tt", FreshId(r.heap), Alloc(r.heap, res),
                               r.applied, Len(r.cores))

\* loop of cholesky: shape check and dense Cholesky factor, core by core
RECURSIVE ChoLoop(_, _, _, _, _)
ChoLoop(h, kron_a, core_idx, cho_cores, applied) ==
  IF core_idx > ndims(kron_a)
  THEN [outcome |-> "ok", heap |-> h, cores |-> cho_cores, applied |-> applied]
  ELSE LET core == h[kron_a.tt_cores[core_idx]]
       IN  IF core.shape[2] # core.shape[3]
           THEN [outcome |-> "ValueError", heap |-> h,
                 cores |-> cho_cores, applied |-> applied]
           ELSE LET touched == Append(applied, kron_a.tt_cores[core_idx])
                    c == MatCholesky(Slice(core))
                IN  IF c.status = "notpd"
                    THEN [outcome |-> "NumericFailure", heap |-> h,
                          cores |-> cho_cores, applied |-> touched]
                    ELSE IF c.status = "irrational"
                    THEN [outcome |-> "irrational", heap |-> h,
                          cores |-> cho_cores, applied |-> touched]
                    ELSE LET core_cho == c.L
                             h2 == Alloc(h, ExpandDims(core_cho))
                         IN  ChoLoop(h2, kron_a, core_idx + 1,
                                     Append(cho_cores, FreshId(h)), touched)

cholesky(h, a) ==
  LET kron_a == h[a]
  IN  IF ~_is_kron(kron_a) THEN Raise("ValueError", h, << >>, 0)
      ELSE LET r == ChoLoop(h, kron_a, 1, << >>, << >>)
           IN  IF r.outcome # "ok"
               THEN Raise(r.outcome, r.heap, r.applied, Len(r.cores))
               ELSE LET res_ranks == Ones(ndims(kron_a) + 1)
                        res_shape == get_raw_shape(kron_a)
                        res == TensorTrain(r.cores, res_shape, res_ranks)
                    IN  Return("tt", FreshId(r.heap), Alloc(r.heap, res),
                               r.applied, Len(r.cores))

is_kron_call(h, a) == Return("bool", _is_kron(h[a]), h, << >>, 0)

\* ------------------------------------------------------------------------
\* The state machine: a caller holding one TensorTrain value and calling
\* the module's functions on it, or on the value the last call returned
\* ------------------------------------------------------------------------
VARIABLES heap,     \* identity -> object (Tensor or TensorTrain)
          kron_a,   \* identity of the argument of the last (or next) call
          orig,     \* the TensorTrain record the caller started from
          op,       \* name of the last function called
          outcome,  \* "none", "returned", "ValueError" or "NumericFailure"
          result,   \* [kind, val]: what the last call returned
          applied,  \* identities of the cores a dense primitive was applied to
          built,    \* number of result cores built by the last call
          depth     \* how many times a returned value was passed on

vars == <<heap, kron_a, orig, op, outcome, result, applied, built, depth>>

\* the cores of a matrix value are 4-D (r, n, m, r'), of a vector 3-D
CoreOf(isMat, m, r0, r1) ==
  IF isMat THEN Tensor(<<r0, Rows(m), Cols(m), r1>>, m)
  ELSE Tensor(<<r0, Rows(m) * Cols(m), r1>>, m)

ShapeOf(isMat, k, mats) ==
  IF isMat THEN <<[i \in 1..k |-> Rows(mats[i])], [i \in 1..k |-> Cols(mats[i])]>>
  ELSE <<[i \in 1..k |-> Rows(mats[i]) * Cols(mats[i])]>>

RankSeqs(k) == {r \in [1..(k + 1) -> 1..MaxRank] : r[1] = 1 /\ r[k + 1] = 1}

InitHeap(isMat, k, mats, ranks) ==
  [id \in 1..(k + 1) |->
     IF id <= k THEN CoreOf(isMat, mats[id], ranks[id], ranks[id + 1])
     ELSE TensorTrain([i \in 1..k |-> i], ShapeOf(isMat, k, mats), ranks)]

Init ==
  \E k \in 1..MaxK : \E mats \in [1..k -> CoreMats] :
  \E ranks \in RankSeqs(k) : \E isMat \in BOOLEAN :
    /\ heap = InitHeap(isMat, k, mats, ranks)
    /\ kron_a = k + 1
    /\ orig = InitHeap(isMat, k, mats, ranks)[k + 1]
    /\ op = "none"
    /\ outcome = "none"
    /\ result = NoValue
    /\ applied = << >>
    /\ built = 0
    /\ depth = 0

\* what the caller can pass: its value, or the value just returned to it
Args == {kron_a} \cup
        (IF result.kind = "tt" /\ depth < MaxDepth THEN {result.val} ELSE {})

\* the objects the caller still holds when it passes a
Live(h, a) == [id \in {a} \cup Range(h[a].tt_cores) |-> h[id]]

Finish(name, a, r) ==
  /\ r.outcome # "irrational"   \* factors with irrational entries are not enumerated
  /\ heap' = r.heap
  /\ kron_a' = a
  /\ op' = name
  /\ outcome' = r.outcome
  /\ result' = r.value
  /\ applied' = r.applied
  /\ built' = r.built
  /\ depth' = IF a = kron_a THEN depth ELSE depth + 1
  /\ UNCHANGED orig

Determinant ==
  \E a \in Args :
    \E r \in {determinant(Live(heap, a), a)} : Finish("determinant", a, r)
LogDeterminant ==
  \E a \in Args :
    \E r \in {log_determinant(Live(heap, a), a)} : Finish("log_determinant", a, r)
Inv ==
  \E a \in Args :
    \E r \in {inv(Live(heap, a), a)} : Finish("inv", a, r)
Cholesky ==
  \E a \in Args :
    \E r \in {cholesky(Live(heap, a), a)} : Finish("cholesky", a, r)
IsKron ==
  \E a \in Args :
    \E r \in {is_kron_call(Live(heap, a), a)} : Finish("_is_kron", a, r)

Next == Determinant \/ LogDeterminant \/ Inv \/ Cholesky \/ IsKron

Spec == Init /\ [][Next]_vars

\* ------------------------------------------------------------------------
\* Vocabulary of the properties
\* ------------------------------------------------------------------------
FourOps == {"determinant", "log_determinant", "inv", "cholesky"}
ArgTT == heap[kron_a]
NFactors == Len(ArgTT.tt_cores)
ArgCore(i) == heap[ArgTT.tt_cores[i]]
IsMatrixArg == Len(ArgTT.raw_shape) = 2
RanksAllOne == \A i \in DOMAIN ArgTT.tt_ranks : ArgTT.tt_ranks[i] = 1
SquareAt(i) == ArgCore(i).shape[2] = ArgCore(i).shape[3]
AllSquare == \A i \in 1..NFactors : SquareAt(i)
ValidArg == IsMatrixArg /\ RanksAllOne /\ AllSquare
Side(i) == Rows(ArgCore(i).mat)
DetAt(i) == MatDet(ArgCore(i).mat)
NTotal == LET F[i \in 0..NFactors] == IF i = 0 THEN 1 ELSE F[i - 1] * Side(i)
          IN  F[NFactors]
\* the factors are one of side 2 with determinant 2 and one of side 3 with
\* determinant 5, in either order
IsTwoFiveExample ==
  /\ NFactors = 2
  /\ \E i, j \in 1..2 :
       /\ i # j
       /\ Side(i) = 2 /\ DetAt(i) = RInt(2)
       /\ Side(j) = 3 /\ DetAt(j) = RInt(5)

\* C1: when some linking rank of the argument differs from 1, each of the
\* four operations ends with ValueError and no dense primitive was applied
\* to any core (nor any result core built).
C1_RanksRejected ==
  (op \in FourOps /\ ~RanksAllOne) =>
     (outcome = "ValueError" /\ applied = << >> /\ built = 0
        /\ result = NoValue)
C1_Witness ==
  /\ op = "inv" /\ IsMatrixArg /\ ~RanksAllOne /\ AllSquare
  /\ outcome = "ValueError"

\* C2 (as stated): when the argument passes the validator and some core is
\* not square, each of the four operations ends with ValueError having
\* applied no dense primitive to any core and having built no result core.
C2_FailFastAsClaimed ==
  (op \in FourOps /\ IsMatrixArg /\ RanksAllOne /\ ~AllSquare) =>
     (outcome = "ValueError" /\ applied = << >> /\ built = 0)

\* C3: on a valid argument determinant returns the product over the factors
\* of det(factor_i) ^ (N / side(i)), N the product of the sides and every
\* N / side(i) exact; for factors (side 2, det 2) and (side 3, det 5) it
\* returns 200.
C3_Expected ==
  LET F[i \in 0..NFactors] ==
        IF i = 0 THEN ScOne
        ELSE ScMul(F[i - 1], ScPow(Scalar(DetAt(i)), NTotal \div Side(i)))
  IN  F[NFactors]
C3_DeterminantIdentity ==
  (op = "determinant" /\ ValidArg) =>
     /\ outcome = "returned"
     /\ result.kind = "scalar"
     /\ \A i \in 1..NFactors : NTotal % Side(i) = 0
     /\ result.val = C3_Expected
     /\ IsTwoFiveExample => result.val = Scalar(RInt(200))
C3_Witness ==
  /\ op = "determinant" /\ ValidArg /\ IsTwoFiveExample
  /\ outcome = "returned" /\ result.val = Scalar(RInt(200))

\* the value returned by the last call, when it is a TensorTrain
ResTT == heap[result.val]
ResCore(i) == heap[ResTT.tt_cores[i]]
\* leading principal minors of the symmetric matrix read from the lower
\* triangle are all positive (Sylvester): the Cholesky primitive succeeds
Leading(M, n) == [i \in 1..n |-> [j \in 1..n |-> M[i][j]]]
PosDef(M) == \A n \in 1..Rows(M) : RPos(MatDet(Leading(LowerSym(M), n)))

\* C4: on a valid argument whose per-factor primitives all succeed, inv
\* (cholesky) returns a new value with as many cores as the argument, core i
\* being the inverse (the lower Cholesky factor) of core i of the argument,
\* with the argument's shape descriptor and a rank sequence of k+1 ones.
C4_InvPerFactor ==
  (op = "inv" /\ outcome = "returned") =>
     \A i \in 1..NFactors :
        /\ ResCore(i).shape = <<1, Side(i), Side(i), 1>>
        /\ MatMul(ResCore(i).mat, ArgCore(i).mat) = Identity(Side(i))
        /\ MatMul(ArgCore(i).mat, ResCore(i).mat) = Identity(Side(i))
C4_ChoPerFactor ==
  (op = "cholesky" /\ outcome = "returned") =>
     \A i \in 1..NFactors :
        /\ ResCore(i).shape = <<1, Side(i), Side(i), 1>>
        /\ IsLower(ResCore(i).mat)
        /\ \A d \in 1..Side(i) : RPos(ResCore(i).mat[d][d])
        /\ MatMul(ResCore(i).mat, Transpose(ResCore(i).mat))
             = LowerSym(ArgCore(i).mat)
C4_FactorwiseResult ==
  /\ (op = "inv" /\ ValidArg /\ \A i \in 1..NFactors : DetAt(i) # RZero)
        => outcome = "returned"
  /\ (op = "cholesky" /\ ValidArg /\ \A i \in 1..NFactors : PosDef(ArgCore(i).mat))
        => outcome = "returned"
  /\ (op \in {"inv", "cholesky"} /\ outcome = "returned") =>
        /\ ValidArg
        /\ result.kind = "tt"
        /\ ResTT.type = "TensorTrain"
        /\ Len(ResTT.tt_cores) = NFactors
        /\ ResTT.raw_shape = ArgTT.raw_shape
        /\ Len(ResTT.tt_ranks) = NFactors + 1
        /\ \A i \in 1..(NFactors + 1) : ResTT.tt_ranks[i] = 1
  /\ C4_InvPerFactor
  /\ C4_ChoPerFactor
C4_Witness ==
  /\ op = "cholesky" /\ outcome = "returned" /\ NFactors = 2
  /\ Side(1) = 2 /\ Side(2) = 1

\* C5: the validator always returns a boolean: TRUE exactly when the value
\* is tagged as a matrix and the largest linking rank is 1; FALSE for every
\* value tagged as a vector.
C5_Validator ==
  op = "_is_kron" =>
     /\ outcome = "returned"
     /\ result.kind = "bool"
     /\ result.val \in BOOLEAN
     /\ result.val <=> (/\ IsMatrixArg
                        /\ \A i \in DOMAIN ArgTT.tt_ranks : ArgTT.tt_ranks[i] <= 1
                        /\ \E i \in DOMAIN ArgTT.tt_ranks : ArgTT.tt_ranks[i] = 1)
     /\ ~IsMatrixArg => result.val = FALSE
C5_Witness ==
  /\ op = "_is_kron" /\ IsMatrixArg /\ ~RanksAllOne
  /\ ArgTT.tt_ranks[1] = 1 /\ result.val = FALSE

\* C6: a call changes nothing of its argument: the TensorTrain object and
\* each of its cores are after the call what they were before it, whatever
\* the outcome, and the cores of a returned value are objects other than the
\* argument's cores.
C6_ArgKept ==
  LET ids == {kron_a'} \cup Range(heap[kron_a'].tt_cores)
  IN  /\ \A id \in ids : id \in DOMAIN heap' /\ heap'[id] = heap[id]
      /\ result'.kind = "tt" =>
            /\ result'.val \notin ids
            /\ Range(heap'[result'.val].tt_cores) \cap ids = {}
C6_InputUnchanged == [][C6_ArgKept]_vars
C6_Witness ==
  /\ op = "inv" /\ outcome = "returned" /\ NFactors = 2 /\ depth = 1

\* C7: on a valid argument whose factor determinants are all positive,
\* log_determinant returns the sum over the factors of
\* log(det(factor_i)) * (N / side(i)), which is log(determinant(argument)).
C7_Expected ==
  LET F[i \in 0..NFactors] ==
        IF i = 0 THEN LogZero
        ELSE LogAdd(F[i - 1],
                    LogScale(Log(Scalar(DetAt(i))), NTotal \div Side(i)))
  IN  F[NFactors]
C7_LogDetConsistent ==
  (op = "log_determinant" /\ ValidArg /\ \A i \in 1..NFactors : RPos(DetAt(i))) =>
     /\ outcome = "returned"
     /\ result.kind = "log"
     /\ result.val.kind = "fin"
     /\ result.val = C7_Expected
     /\ result.val = Log(determinant(heap, kron_a).value.val)
     /\ IsTwoFiveExample => result.val = Log(Scalar(RInt(200)))
C7_Witness ==
  /\ op = "log_determinant" /\ ValidArg /\ IsTwoFiveExample
  /\ result.val = LogFin(2 :> 3 @@ 5 :> 2)

\* C8: on a valid argument with a singular core, inv ends with the numeric
\* failure of the inverse primitive, not a ValueError, and returns nothing.
C8_SingularPropagates ==
  (op = "inv" /\ ValidArg /\ \E i \in 1..NFactors : DetAt(i) = RZero) =>
     (outcome = "NumericFailure" /\ result = NoValue)
C8_Witness ==
  /\ op = "inv" /\ ValidArg /\ NFactors = 2
  /\ DetAt(2) = RZero /\ DetAt(1) # RZero
  /\ outcome = "NumericFailure"

\* C9 (as stated): on a valid argument with a factor of zero or negative
\* determinant, log_determinant ends with ValueError instead of returning.
C9_NonPositiveRaisesAsClaimed ==
  (op = "log_determinant" /\ ValidArg /\ \E i \in 1..NFactors : ~RPos(DetAt(i))) =>
     outcome = "ValueError"

\* C10: starting from a valid value, every value reached by successful inv
\* and cholesky calls is valid again, with the factor count, side lengths,
\* shape descriptor and linking ranks of the original, and none of the four
\* operations ends with ValueError on it.
OrigValid ==
  /\ Len(orig.raw_shape) = 2
  /\ \A i \in DOMAIN orig.tt_ranks : orig.tt_ranks[i] = 1
  /\ orig.raw_shape[1] = orig.raw_shape[2]
SameStructure(id) ==
  /\ _is_kron(heap[id])
  /\ Len(heap[id].tt_cores) = Len(orig.tt_cores)
  /\ heap[id].raw_shape = orig.raw_shape
  /\ heap[id].tt_ranks = orig.tt_ranks
  /\ \A i \in 1..Len(orig.tt_cores) :
        LET c == heap[heap[id].tt_cores[i]]
        IN  /\ c.shape[2] = c.shape[3]
            /\ c.shape[2] = orig.raw_shape[1][i]
            /\ Rows(c.mat) = c.shape[2] /\ Cols(c.mat) = c.shape[3]
C10_Closure ==
  OrigValid =>
     /\ SameStructure(kron_a)
     /\ result.kind = "tt" => SameStructure(result.val)
     /\ op \in FourOps => outcome # "ValueError"
C10_Witness ==
  /\ OrigValid /\ depth = MaxDepth /\ op = "inv" /\ outcome = "returned"
  /\ NFactors >= 2
====
